---------------------------- MODULE Spec2Model ----------------------------
(***************************************************************************)
(* Block document model and editing state machine of the hybrid Markdown   *)
(* editor (component Doc).  A text is a sequence of one-character strings. *)
(* The Document is the pair (doc, allLines); editingBlockIds is the edit   *)
(* focus set.  The host surface (selection anchor, pending deferred        *)
(* callbacks) is part of the state; every handler is one action.           *)
(***************************************************************************)
EXTENDS Integers, Sequences, FiniteSets, TLC

(***************************************************************************)
(* Bounds of the model.                                                    *)
(***************************************************************************)
MaxId == 4
MaxLen == 7
MaxTyped == 1
MaxPending == 2
MaxSteps == 6
MaxTextLen == 4
MaxSegLen == 6
MaxListLen == 22
MaxContentLen == 3
MaxRenderLen == 4

(***************************************************************************)
(* Characters.  NBSP stands for U+00A0 and ZWSP for U+200B.                *)
(***************************************************************************)
NL == "\n"
SP == " "
NBSP == "nbsp"
ZWSP == "zwsp"
WhiteSpace == {SP, NL, NBSP, "\r", "\t"}
Digits == {"0", "1", "2", "3", "4", "5", "6", "7", "8", "9"}
NoBlock == 0

IsWs(s) == \A i \in 1..Len(s) : s[i] \in WhiteSpace

Min(a, b) == IF a < b THEN a ELSE b
Max(a, b) == IF a < b THEN b ELSE a

\* String.prototype.slice(from, to): 0-based offsets, a negative offset
\* counts from the end, both are clamped to the text.
sliceIndex(s, i) == IF i < 0 THEN Max(Len(s) + i, 0) ELSE Min(i, Len(s))
slice(s, from, to) == SubSeq(s, sliceIndex(s, from) + 1, sliceIndex(s, to))
\* The second half starts one character after the offset.
sliceFromNext(s, from) == slice(s, from + 1, Len(s))

\* String.prototype.slice(from)
sliceFrom(s, from) == slice(s, from, Len(s))

\* String.prototype.trimEnd()
RECURSIVE trimEnd(_)
trimEnd(s) ==
  IF s # << >> /\ s[Len(s)] \in WhiteSpace
    THEN trimEnd(SubSeq(s, 1, Len(s) - 1))
    ELSE s

\* String.prototype.trimStart()
RECURSIVE trimStart(_)
trimStart(s) ==
  IF s # << >> /\ s[1] \in WhiteSpace THEN trimStart(Tail(s)) ELSE s

\* String.prototype.trim()
trim(s) == trimStart(trimEnd(s))

\* text.replace(/\r\n?/g, "\n")
RECURSIVE normalizeEol(_)
normalizeEol(s) ==
  IF s = << >> THEN << >>
  ELSE IF s[1] = "\r"
    THEN IF Len(s) >= 2 /\ s[2] = NL
           THEN <<NL>> \o normalizeEol(SubSeq(s, 3, Len(s)))
           ELSE <<NL>> \o normalizeEol(Tail(s))
    ELSE <<s[1]>> \o normalizeEol(Tail(s))

\* text.split("\n"): the lines of a text, always at least one.
RECURSIVE splitLines(_)
splitLines(s) ==
  IF \E i \in 1..Len(s) : s[i] = NL
    THEN LET i == CHOOSE j \in 1..Len(s) :
                    s[j] = NL /\ \A m \in 1..(j - 1) : s[m] # NL
         IN  <<SubSeq(s, 1, i - 1)>> \o splitLines(SubSeq(s, i + 1, Len(s)))
    ELSE <<s>>

\* lines.join("\n")
RECURSIVE joinLines(_)
joinLines(ls) ==
  IF ls = << >> THEN << >>
  ELSE IF Len(ls) = 1 THEN ls[1]
  ELSE ls[1] \o <<NL>> \o joinLines(Tail(ls))

\* Concatenation of a sequence of texts.
RECURSIVE concat(_)
concat(ls) == IF ls = << >> THEN << >> ELSE ls[1] \o concat(Tail(ls))

\* /^#+\s/.test(line)
isHeadingLine(line) ==
  \E n \in 1..Len(line) :
    /\ \A i \in 1..n : line[i] = "#"
    /\ n < Len(line)
    /\ line[n + 1] \in WhiteSpace

(***************************************************************************)
(* Block Segmenter.                                                        *)
(***************************************************************************)
\* A heading is emitted without closing the buffer open before it.
segmentStepKeepsBuffer(st, line) ==
  IF isHeadingLine(line)
    THEN [blocks |-> st.blocks \o <<trim(line)>>, buffer |-> st.buffer]
  ELSE IF trim(line) = << >>
    THEN IF trim(st.buffer) # << >>
           THEN [blocks |-> Append(st.blocks, trim(st.buffer)),
                 buffer |-> << >>]
           ELSE st
  ELSE [blocks |-> st.blocks,
        buffer |-> (IF st.buffer # << >> THEN st.buffer \o <<NL>> ELSE << >>)
                     \o line]

\* One iteration of the scanning loop: st = [blocks, buffer].
segmentStep(st, line) ==
  IF isHeadingLine(line)
    THEN [blocks |-> (IF trim(st.buffer) # << >>
                        THEN Append(st.blocks, trim(st.buffer))
                        ELSE st.blocks) \o <<trim(line)>>,
          buffer |-> << >>]
  ELSE IF trim(line) = << >>
    THEN IF trim(st.buffer) # << >>
           THEN [blocks |-> Append(st.blocks, trim(st.buffer)),
                 buffer |-> << >>]
           ELSE st
  ELSE [blocks |-> st.blocks,
        buffer |-> (IF st.buffer # << >> THEN st.buffer \o <<NL>> ELSE << >>)
                     \o line]

RECURSIVE segmentLoop(_, _)
segmentLoop(st, lines) ==
  IF lines = << >> THEN st
  ELSE segmentLoop(segmentStep(st, lines[1]), Tail(lines))

\* blocks.filter(Boolean)
dropEmpty(bs) == SelectSeq(bs, LAMBDA b : b # << >>)

\* The buffer left at the end of the scan is emitted untrimmed.
splitIntoBlocksRawTail(text) ==
  LET st == segmentLoop([blocks |-> << >>, buffer |-> << >>],
                        splitLines(normalizeEol(text)))
  IN  dropEmpty(IF trim(st.buffer) # << >>
                  THEN Append(st.blocks, st.buffer)
                  ELSE st.blocks)

splitIntoBlocks(text) ==
  LET st == segmentLoop([blocks |-> << >>, buffer |-> << >>],
                        splitLines(normalizeEol(text)))
  IN  dropEmpty(IF trim(st.buffer) # << >>
                  THEN Append(st.blocks, trim(st.buffer))
                  ELSE st.blocks)

(***************************************************************************)
(* List-item patterns.                                                     *)
(***************************************************************************)
\* Number of leading whitespace characters: the match of /^(\s*)/.
RECURSIVE leadWs(_)
leadWs(s) == IF s # << >> /\ s[1] \in WhiteSpace THEN 1 + leadWs(Tail(s)) ELSE 0

\* Number of leading digits.
RECURSIVE leadDigits(_)
leadDigits(s) ==
  IF s # << >> /\ s[1] \in Digits THEN 1 + leadDigits(Tail(s)) ELSE 0

\* Length of the match of ([-*+] |\d+\. |- \[[ xX]\] ) at the start of s,
\* 0 when there is none.  The alternatives are tried in this order.
markerLen(s) ==
  IF Len(s) >= 2 /\ s[1] \in {"-", "*", "+"} /\ s[2] = SP THEN 2
  ELSE IF /\ leadDigits(s) >= 1
          /\ Len(s) >= leadDigits(s) + 2
          /\ s[leadDigits(s) + 1] = "."
          /\ s[leadDigits(s) + 2] = SP
    THEN leadDigits(s) + 2
  ELSE IF /\ Len(s) >= 6
          /\ SubSeq(s, 1, 3) = <<"-", SP, "[">>
          /\ s[4] \in {SP, "x", "X"}
          /\ SubSeq(s, 5, 6) = <<"]", SP>>
    THEN 6
  ELSE 0

\* /^(\s*)([-*+] |\d+\. |- \[[ xX]\] )(.*)/ on one line.
isListLine(line) == markerLen(sliceFrom(line, leadWs(line))) > 0

\* /^(\s*)([-*+] |\d+\. |- \[[ xX]\] )/m.test(text)
isListBlock(text) ==
  LET lines == splitLines(text)
  IN  \E i \in 1..Len(lines) : isListLine(lines[i])

\* String.prototype.indexOf(needle), -1 when absent.
indexOf(s, needle) ==
  IF \E i \in 0..(Len(s) - Len(needle)) :
       SubSeq(s, i + 1, i + Len(needle)) = needle
    THEN CHOOSE i \in 0..(Len(s) - Len(needle)) :
           /\ SubSeq(s, i + 1, i + Len(needle)) = needle
           /\ \A j \in 0..(i - 1) : SubSeq(s, j + 1, j + Len(needle)) # needle
    ELSE -1

(***************************************************************************)
(* Render Projection, source view: the text fragment of one line.          *)
(***************************************************************************)
AMP_NBSP == <<"&", "n", "b", "s", "p", ";">>

\* The HTML parser turns the entity &nbsp; into the character U+00A0.
RECURSIVE decodeEntities(_)
decodeEntities(s) ==
  IF s = << >> THEN << >>
  ELSE IF Len(s) >= 6 /\ SubSeq(s, 1, 6) = AMP_NBSP
    THEN <<NBSP>> \o decodeEntities(SubSeq(s, 7, Len(s)))
    ELSE <<s[1]>> \o decodeEntities(Tail(s))

\* leadingSpaces.replace(/ /g, "&nbsp;"), already decoded.
spacesToNbsp(s) == [i \in 1..Len(s) |-> IF s[i] = SP THEN NBSP ELSE s[i]]

\* Text content of the span rendered for one source line.
lineFragment(line, list) ==
  LET leadingSpaces == SubSeq(line, 1, leadWs(line))
      rest == sliceFrom(line, leadWs(line))
      \* rest.match(/^([-*+] |\d+\. |- \[[ xX]\] ) ?$/): the anchored
      \* pattern may take the task alternative, whose length is 6.
      m == IF markerLen(rest) = 2 /\ Len(rest) >= 6
                /\ rest[3] = "[" /\ rest[4] \in {SP, "x", "X"}
                /\ SubSeq(rest, 5, 6) = <<"]", SP>>
             THEN 6 ELSE markerLen(rest)
      listMatch == list /\ m > 0
                   /\ (Len(rest) = m \/ (Len(rest) = m + 1 /\ rest[m + 1] = SP))
      htmlLine == spacesToNbsp(leadingSpaces)
                    \o (IF listMatch THEN SubSeq(rest, 1, m) \o <<NBSP>>
                        ELSE decodeEntities(rest))
  IN  IF htmlLine = << >> THEN <<ZWSP>> ELSE htmlLine

\* The values of data-line: the source lines a block in source view is
\* rendered from.
sourceLines(text) ==
  IF isListBlock(text) THEN splitLines(text)
  ELSE splitLines(IF text = << >> THEN <<ZWSP>> ELSE text)

\* The text fragments (one per source line) of a block shown in source view.
sourceFragments(text) ==
  LET lines == sourceLines(text)
      list == isListBlock(text)
  IN  [i \in 1..Len(lines) |-> lineFragment(lines[i], list)]

\* markdown.replace(/\s+$/gm, ""): a whitespace run at the end of the text
\* is removed; a run that contains a line break is cut back to its last one.
RECURSIVE cleanInput(_)
cleanInput(s) ==
  IF s = << >> THEN << >>
  ELSE IF s[1] \notin WhiteSpace THEN <<s[1]>> \o cleanInput(Tail(s))
  ELSE LET n == leadWs(s)
           run == SubSeq(s, 1, n)
           rest == SubSeq(s, n + 1, Len(s))
           hasNl == \E i \in 1..n : run[i] = NL
           lastNl == CHOOSE i \in 1..n :
                       run[i] = NL /\ \A j \in (i + 1)..n : run[j] # NL
       IN  IF rest = << >> THEN << >>
           ELSE (IF hasNl THEN SubSeq(run, lastNl, n) ELSE run)
                  \o cleanInput(rest)

(***************************************************************************)
(* State.                                                                  *)
(***************************************************************************)
VARIABLES
  doc,              \* id -> source text (useState doc)
  allLines,         \* ordering sequence of ids (useState allLines)
  editingBlockIds,  \* edit-focus set, in insertion order
  sel,              \* host selection: anchor and touched blocks
  pending,          \* deferred callbacks (setTimeout / requestAnimationFrame)
  lastClick,        \* lastClickRef.current # null
  nextId,           \* next id of the id generator
  typed,            \* number of input events so far
  steps,            \* number of events handled so far
  input,            \* the text and offset an operation is tried on
  view,             \* what the last render of a block produced
  last              \* the last event handled

vars == <<doc, allLines, editingBlockIds, sel, pending, lastClick, nextId,
          typed, steps, input, view, last>>

\* Every event counts against the bound on the length of a run.
Tick == steps < MaxSteps /\ steps' = steps + 1 /\ UNCHANGED <<input, view>>

NoInput == [text |-> << >>, k |-> 0]

NoView == [mode |-> "none", outcome |-> "none", error |-> FALSE,
           html |-> << >>]

Ids == 1..MaxId
Range(q) == {q[i] : i \in 1..Len(q)}
EditSet == Range(editingBlockIds)

\* doc[id] || ""
docText(d, id) == IF id \in DOMAIN d THEN d[id] ELSE << >>

\* prev[id] + "\n" and friends: an absent entry reads as undefined.
UNDEFINED == <<"u", "n", "d", "e", "f", "i", "n", "e", "d">>
docRaw(d, id) == IF id \in DOMAIN d THEN d[id] ELSE UNDEFINED

\* { [id]: text }: the other entries are not carried over.
setEntryAlone(d, id, text) == (id :> text)

\* { ...prev, [id]: text }
setEntry(d, id, text) == (id :> text) @@ d

\* delete newDoc[id]
deleteEntry(d, id) == [x \in (DOMAIN d) \ {id} |-> d[x]]

\* allLines.indexOf(id), 0-based, -1 when absent.
lineIndexOf(lines, id) ==
  IF \E i \in 1..Len(lines) : lines[i] = id
    THEN (CHOOSE i \in 1..Len(lines) :
            lines[i] = id /\ \A j \in 1..(i - 1) : lines[j] # id) - 1
    ELSE -1

\* newAllLines.splice(idx, 1, ...items): a negative idx counts from the end.
splice1(lines, idx, items) ==
  LET at == IF idx < 0 THEN Max(Len(lines) + idx, 0) ELSE Min(idx, Len(lines))
  IN  SubSeq(lines, 1, at) \o items \o SubSeq(lines, at + 2, Len(lines))

\* Text fragments of the element of block id as currently rendered.  The
\* rendered view of a block outside the edit focus comes from the external
\* renderer; its text fragments are taken to follow the source lines.
fragments(d, id) == sourceFragments(docText(d, id))

\* block.textContent
textContent(d, id) == concat(fragments(d, id))

\* document.getElementById(id): blocks are rendered from allLines.
hasElement(lines, id) == id \in Range(lines)

\* No selection at all: sel.anchorNode is null.
NoSel == [kind |-> "none", block |-> NoBlock, line |-> 0, off |-> 0,
          range |-> {}]
\* A caret whose anchor is a node outside every block element.
OutSel == [kind |-> "outside", block |-> NoBlock, line |-> 0, off |-> 0,
           range |-> {}]
TextSel(b, l, o) == [kind |-> "text", block |-> b, line |-> l, off |-> o,
                     range |-> {}]
\* Anchor on an element: the block itself (kind "block", off is the child
\* index) or a line span inside it (kind "span").
ElemSel(k, b, o) == [kind |-> k, block |-> b, line |-> 0, off |-> o,
                     range |-> {}]

\* Effect of a re-render on the host selection: the anchor leaves a removed
\* block, and falls back to the enclosing element when the content it was in
\* has been replaced.
rerenderSel(s, d1, l1, e1) ==
  IF s.kind \in {"none", "outside"} THEN s
  ELSE IF s.block \notin Range(l1) THEN OutSel
  ELSE IF (s.block \in Range(e1)) # (s.block \in EditSet)
    THEN ElemSel("block", s.block, 0)
  ELSE IF docText(d1, s.block) # docText(doc, s.block)
    THEN IF s.block \in Range(e1) THEN ElemSel("span", s.block, 0)
         ELSE ElemSel("block", s.block, 0)
  ELSE [s EXCEPT !.range = s.range \cap Range(l1)]

\* The external serializer applied to the element of block id.  By its
\* contract it returns the Markdown source the element was rendered from.
htmlToMarkdown(d, id) == docText(d, id)

Event(op, id, k, n, prevented) ==
  [op |-> op, id |-> id, k |-> k, n |-> n, prevented |-> prevented]

(***************************************************************************)
(* Render Projection, rendered view: getNodeForBlock.  Markup is kept as   *)
(* one element per tag.  The texts tried hold no reminder sign, so the     *)
(* reminder pre-processing leaves them as they are.                        *)
(***************************************************************************)
\* What the call of the external renderer marked.marked(block) may do.
RendererOutcomes == {"string", "promise", "object", "undefined", "throws"}

BOOKMARK_PREFIX == <<"/", "/", SP>>
OBJECT_STRING == <<"[object Object]">>
VoidTags == {"<hr>", "<br>", "<img>"}

\* String.prototype.startsWith(prefix)
startsWith(s, prefix) ==
  Len(s) >= Len(prefix) /\ SubSeq(s, 1, Len(prefix)) = prefix

\* String.prototype.replace(needle, with): the first occurrence only.
replaceFirst(s, needle, with) ==
  IF indexOf(s, needle) < 0 THEN s
  ELSE SubSeq(s, 1, indexOf(s, needle)) \o with
         \o SubSeq(s, indexOf(s, needle) + Len(needle) + 1, Len(s))

\* The HTML the external renderer returns for a text when it returns a
\* string: by its contract a paragraph around the text, nothing for "".
markedHtml(block) ==
  IF block = << >> THEN << >> ELSE <<"<p>">> \o block \o <<"</p>">>

\* html.replace(/\\/g, "")
stripBackslashes(html) == SelectSeq(html, LAMBDA c : c # "\\")

\* getNodeForBlock(block) when the renderer call ends with the given outcome:
\* an exception of the renderer is not caught.
getNodeForBlock(block, outcome) ==
  LET result == CASE outcome = "string" -> markedHtml(block)
                  [] outcome = "promise" -> block
                  [] outcome = "object" -> OBJECT_STRING
                  [] OTHER -> UNDEFINED
      html == stripBackslashes(result)
  IN  IF outcome = "throws"
        THEN [mode |-> "none", outcome |-> outcome, error |-> TRUE,
              html |-> << >>]
      ELSE IF startsWith(block, BOOKMARK_PREFIX)
        THEN [mode |-> "bookmark", outcome |-> outcome, error |-> FALSE,
              html |-> <<"<div class=m2-bookmark>">>
                         \o replaceFirst(block, BOOKMARK_PREFIX, << >>)
                         \o <<"<hr />", "</div>">>]
        ELSE [mode |-> "html", outcome |-> outcome, error |-> FALSE,
              html |-> IF html # << >> /\ html[1] \in VoidTags
                         THEN <<"<div>">> \o html \o <<"</div>">>
                         ELSE html]

\* renderBlocks for one id: source view for a block in the edit-focus set,
\* getNodeForBlock(doc[id] || "") otherwise.
renderBlock(d, id, editing, outcome) ==
  IF id \in Range(editing)
    THEN [mode |-> "source", outcome |-> "none", error |-> FALSE,
          html |-> concat(sourceFragments(docText(d, id)))]
    ELSE getNodeForBlock(docText(d, id), outcome)

(***************************************************************************)
(* Initial state and document load.                                        *)
(***************************************************************************)
InitialData ==
  { <<"-", SP, "a", NL, NL, "-", SP, "b", NL, NL, "a">>,
    <<"a", NL, "b", NL, "#", SP, "a">> }

\* Document initialization effect: one block per segment of the input,
\* each under a newly generated id.
loadDocument(text) ==
  LET blocks == splitIntoBlocks(text)
  IN  [doc |-> [i \in 1..Len(blocks) |-> blocks[i]],
       lines |-> [i \in 1..Len(blocks) |-> i],
       fresh |-> Len(blocks) + 1]

\* The state once the component is mounted and the input is loaded.
Init ==
  /\ \E text \in InitialData :
       /\ doc = loadDocument(text).doc
       /\ allLines = loadDocument(text).lines
       /\ nextId = loadDocument(text).fresh
  /\ editingBlockIds = << >>
  /\ sel = NoSel
  /\ pending = << >>
  /\ lastClick = FALSE
  /\ typed = 0
  /\ steps = 0
  /\ view = NoView
  /\ input = NoInput
  /\ last = [op |-> "init", id |-> NoBlock, k |-> 0, n |-> 0,
             prevented |-> FALSE]

(***************************************************************************)
(* Host actions: the user places the caret or drags a selection.           *)
(***************************************************************************)
\* The positions in the text fragments of block b.
positionsIn(d, b) ==
  LET frs == fragments(d, b)
  IN  UNION {{TextSel(b, l, o) : o \in 0..Len(frs[l])} : l \in 1..Len(frs)}

MoveCaret(b) ==
  /\ Tick
  /\ hasElement(allLines, b)
  /\ \E s \in positionsIn(doc, b) : sel' = s
  /\ last' = Event("move", NoBlock, 0, 0, FALSE)
  /\ UNCHANGED <<doc, allLines, editingBlockIds, pending, lastClick, nextId,
                 typed>>

\* A non-collapsed selection over the blocks allLines[i..j], anchored at the
\* start of its first block.
SelectRange(i, j) ==
  /\ Tick
  /\ 1 <= i /\ i <= j /\ j <= Len(allLines)
  /\ sel' = [kind |-> "text", block |-> allLines[i], line |-> 1, off |-> 0,
             range |-> {allLines[m] : m \in i..j}]
  /\ last' = Event("select", NoBlock, 0, 0, FALSE)
  /\ UNCHANGED <<doc, allLines, editingBlockIds, pending, lastClick, nextId,
                 typed>>

\* The caret is placed in the page outside every block.
MoveCaretOutside ==
  /\ Tick
  /\ sel # OutSel
  /\ sel' = OutSel
  /\ last' = Event("move-outside", NoBlock, 0, 0, FALSE)
  /\ UNCHANGED <<doc, allLines, editingBlockIds, pending, lastClick, nextId,
                 typed>>

\* The host drops the selection: no range is left.
ClearSelection ==
  /\ Tick
  /\ sel.kind # "none"
  /\ sel' = NoSel
  /\ last' = Event("clear", NoBlock, 0, 0, FALSE)
  /\ UNCHANGED <<doc, allLines, editingBlockIds, pending, lastClick, nextId,
                 typed>>

(***************************************************************************)
(* Focus handling.                                                         *)
(***************************************************************************)
\* saveCurrentEditingBlock: the Document after the save.
saveCurrentEditingBlock(d) ==
  IF Len(editingBlockIds) # 1 THEN d
  ELSE IF hasElement(allLines, editingBlockIds[1])
    THEN setEntry(d, editingBlockIds[1], htmlToMarkdown(d, editingBlockIds[1]))
    ELSE d

\* The block whose element saveCurrentEditingBlock serializes, NoBlock when
\* it returns without saving.
savedBlock ==
  IF Len(editingBlockIds) = 1 /\ hasElement(allLines, editingBlockIds[1])
    THEN editingBlockIds[1]
    ELSE NoBlock

\* A deferred callback: kind is "timer" or "raf", cb names the callback,
\* id, a and b are the values its closure captured.
Deferred(kind, cb, id, a, b) ==
  [kind |-> kind, cb |-> cb, id |-> id, a |-> a, b |-> b]

handleMouseDown ==
  /\ Tick
  /\ doc' = saveCurrentEditingBlock(doc)
  /\ lastClick' = TRUE
  /\ last' = Event("mousedown", NoBlock, 0, savedBlock, FALSE)
  /\ UNCHANGED <<allLines, editingBlockIds, sel, pending, nextId, typed>>

handleFocusOrSelect ==
  /\ Tick
  /\ IF \/ sel.kind = "none"
        \/ ~hasElement(allLines, sel.block)
        \/ sel.block \in EditSet
       THEN /\ last' = Event("focusin", NoBlock, 0, 0, FALSE)
            /\ UNCHANGED <<doc, editingBlockIds, sel, pending>>
       ELSE /\ Len(pending) < MaxPending
            /\ doc' = saveCurrentEditingBlock(doc)
            /\ editingBlockIds' = <<sel.block>>
            /\ pending' = Append(pending,
                                 Deferred("timer", "focus", sel.block, 0, 0))
            /\ sel' = rerenderSel(sel, doc', allLines, editingBlockIds')
            /\ last' = Event("focusin", sel.block, 1, savedBlock, FALSE)
  /\ UNCHANGED <<allLines, lastClick, nextId, typed>>

\* b is the target of the focusout event.
handleBlur(b) ==
  /\ Tick
  /\ hasElement(allLines, b)
  /\ doc' = saveCurrentEditingBlock(doc)
  /\ editingBlockIds' = << >>
  /\ sel' = rerenderSel(sel, doc', allLines, editingBlockIds')
  /\ last' = Event("focusout", NoBlock, 0, savedBlock, FALSE)
  /\ UNCHANGED <<allLines, pending, lastClick, nextId, typed>>

\* Only the first block of lines that is in the set ids.
inOrderFirstOnly(lines, ids) ==
  SubSeq(SelectSeq(lines, LAMBDA x : x \in ids), 1, 1)

\* The blocks of lines that are in the set ids, in document order.
inOrder(lines, ids) == SelectSeq(lines, LAMBDA x : x \in ids)

\* The event follows a change of the selection.  With no selection left,
\* sel.isCollapsed holds and the handler reads parentElement of the null
\* anchorNode: a TypeError, recorded as the event "selectionchange-error".
handleSelectionChange ==
  /\ Tick
  /\ sel.kind = "none" => last.op = "clear"
  /\ IF sel.range = {}
       THEN IF sel.kind # "none" /\ hasElement(allLines, sel.block)
              THEN editingBlockIds' = <<sel.block>>
              ELSE UNCHANGED editingBlockIds
       ELSE IF inOrder(allLines, sel.range) # << >>
              THEN editingBlockIds' = inOrder(allLines, sel.range)
              ELSE UNCHANGED editingBlockIds
  /\ sel' = rerenderSel(sel, doc, allLines, editingBlockIds')
  /\ last' = Event(IF sel.kind = "none" THEN "selectionchange-error"
                                        ELSE "selectionchange",
                   NoBlock, 0, 0, FALSE)
  /\ UNCHANGED <<doc, allLines, pending, lastClick, nextId, typed>>

(***************************************************************************)
(* Typing in a block shown in source view.                                 *)
(***************************************************************************)
TypeChars == {"a"}

\* Offset of the anchor in block.textContent: the lengths of the text
\* fragments before the anchor's fragment plus the local offset; 0 for an
\* anchor that is not a text fragment.
caretPos(d, s) ==
  IF s.kind = "text"
    THEN Len(concat(SubSeq(fragments(d, s.block), 1, s.line - 1))) + s.off
    ELSE 0

\* onInput of the edit-mode element of block b after the host has inserted
\* the character c at the caret.
onInput(b, c) ==
  /\ Tick
  /\ typed < MaxTyped
  /\ sel.kind # "none" /\ sel.block = b
  /\ b \in EditSet /\ hasElement(allLines, b)
  /\ LET tc == textContent(doc, b)
         at == caretPos(doc, sel)
         markdown == SubSeq(tc, 1, at) \o <<c>> \o SubSeq(tc, at + 1, Len(tc))
     IN  /\ Len(markdown) <= MaxLen
         /\ doc' = setEntry(doc, b, cleanInput(markdown))
  /\ typed' = typed + 1
  /\ sel' = rerenderSel(sel, doc', allLines, editingBlockIds)
  /\ last' = Event("input", b, caretPos(doc, sel), 0, FALSE)
  /\ UNCHANGED <<allLines, editingBlockIds, pending, lastClick, nextId>>

(***************************************************************************)
(* Structural operations, as functions of the Document.                    *)
(***************************************************************************)
\* A half that segments to nothing yields two empty blocks.
splitHalfTwoEmpty(half) ==
  IF splitIntoBlocks(half) = << >> THEN << << >>, << >> >>
  ELSE splitIntoBlocks(half)

\* The blocks of one half of a split: at least one, possibly empty.
splitHalf(half) ==
  IF splitIntoBlocks(half) = << >> THEN << << >> >> ELSE splitIntoBlocks(half)

\* Every block of a split, the first included, gets a generated id.
splitIdsAllFresh(id, count, fresh) == [i \in 1..count |-> fresh + i - 1]

\* The ids of the blocks a split produces: the id of the split block, then
\* freshly generated ones.
splitIds(id, count, fresh) == <<id>> \o [i \in 1..(count - 1) |-> fresh + i - 1]

\* The edit focus stays on the block that was split.
handleBlockSplitKeepsFocus(d, lines, id, blockMarkdown, k, fresh) ==
  LET beforeBlocks == splitHalf(slice(blockMarkdown, 0, k))
      afterBlocks == splitHalf(sliceFrom(blockMarkdown, k))
      texts == beforeBlocks \o afterBlocks
      newIds == splitIds(id, Len(texts), fresh)
      docUpdate == [x \in (DOMAIN d) \cup Range(newIds) |->
                      IF x \in Range(newIds)
                        THEN texts[CHOOSE i \in 1..Len(newIds) : newIds[i] = x]
                        ELSE d[x]]
  IN  [doc |-> docUpdate,
       lines |-> splice1(lines, lineIndexOf(lines, id), newIds),
       nb |-> Len(beforeBlocks),
       focus |-> id,
       used |-> Len(texts) - 1]

\* handleBlockSplit: the new Document, the number of 'before' blocks and
\* the block that takes the edit focus.
handleBlockSplit(d, lines, id, blockMarkdown, k, fresh) ==
  LET beforeBlocks == splitHalf(slice(blockMarkdown, 0, k))
      afterBlocks == splitHalf(sliceFrom(blockMarkdown, k))
      texts == beforeBlocks \o afterBlocks
      newIds == splitIds(id, Len(texts), fresh)
      docUpdate == [x \in (DOMAIN d) \cup Range(newIds) |->
                      IF x \in Range(newIds)
                        THEN texts[CHOOSE i \in 1..Len(newIds) : newIds[i] = x]
                        ELSE d[x]]
  IN  [doc |-> docUpdate,
       lines |-> splice1(lines, lineIndexOf(lines, id), newIds),
       nb |-> Len(beforeBlocks),
       focus |-> newIds[Len(beforeBlocks) + 1],
       used |-> Len(texts) - 1]

\* Every join inserts a line break.
mergedTextAlwaysNewline(prevText, currText) == prevText \o <<NL>> \o currText

\* No join inserts a line break.
mergedTextNeverNewline(prevText, currText) == prevText \o currText

\* Text of the previous block after a backward merge.
mergedText(prevText, currText) ==
  IF isListBlock(prevText) /\ isListBlock(currText)
    THEN prevText \o <<NL>> \o currText
    ELSE prevText \o currText

\* Backward merge of the block at 0-based index idx > 0 into its predecessor.
backwardMerge(d, lines, idx) ==
  LET id == lines[idx + 1]
      prevId == lines[idx]
  IN  [doc |-> deleteEntry(setEntry(d, prevId,
                  mergedText(docText(d, prevId), docText(d, id))), id),
       lines |-> splice1(lines, idx, << >>),
       focus |-> prevId,
       join |-> Len(docText(d, prevId))]

\* The deletion leaves the block's entry in the mapping.
deleteBlockKeepsEntry(d, lines, id, idx) ==
  LET newAllLines == splice1(lines, idx, << >>)
  IN  [doc |-> d,
       lines |-> newAllLines,
       focus |-> IF Len(newAllLines) > 0
                   THEN IF idx < Len(newAllLines) THEN newAllLines[idx + 1]
                        ELSE IF idx - 1 >= 0 THEN newAllLines[idx]
                        ELSE NoBlock
                   ELSE NoBlock,
       atEnd |-> Len(newAllLines) > 0 /\ ~(idx < Len(newAllLines))
                 /\ idx - 1 >= 0]

\* Empty-block deletion of block id at 0-based index idx.
deleteBlock(d, lines, id, idx) ==
  LET newAllLines == splice1(lines, idx, << >>)
  IN  [doc |-> deleteEntry(d, id),
       lines |-> newAllLines,
       focus |-> IF Len(newAllLines) > 0
                   THEN IF idx < Len(newAllLines) THEN newAllLines[idx + 1]
                        ELSE IF idx - 1 >= 0 THEN newAllLines[idx]
                        ELSE NoBlock
                   ELSE NoBlock,
       atEnd |-> Len(newAllLines) > 0 /\ ~(idx < Len(newAllLines))
                 /\ idx - 1 >= 0]

\* isCaretAtStartOfBlock: the range starts on the block element at offset 0,
\* or the anchor is offset 0 of the first text fragment.
isCaretAtStartOfBlock(s) ==
  /\ s.kind # "none"
  /\ \/ s.kind = "block" /\ s.off = 0
     \/ s.kind = "text" /\ s.line = 1 /\ s.off = 0

\* block.textContent is empty or the zero-width placeholder alone.
isEmptyContent(tc) == tc = << >> \/ tc = <<ZWSP>>

(***************************************************************************)
(* List-Aware Line Splitter.                                               *)
(***************************************************************************)
\* Index (1-based) of the first line equal to currentLine up to surrounding
\* whitespace, 0 when there is none.
findLine(lines, currentLine) ==
  IF \E i \in 1..Len(lines) : trim(lines[i]) = trim(currentLine)
    THEN CHOOSE i \in 1..Len(lines) :
           /\ trim(lines[i]) = trim(currentLine)
           /\ \A j \in 1..(i - 1) : trim(lines[j]) # trim(currentLine)
    ELSE 0

\* The one or two lines that replace the list line currentLineContent when
\* Enter is pressed at offset caret of its text fragment.
splitListLine(currentLineContent, caret) ==
  LET indent == SubSeq(currentLineContent, 1, leadWs(currentLineContent))
      rest == sliceFrom(currentLineContent, leadWs(currentLineContent))
      marker == SubSeq(rest, 1, markerLen(rest))
      content == sliceFrom(rest, markerLen(rest))
      trimmedContent == trim(content)
      contentStart == indexOf(currentLineContent, trimmedContent)
      offsetInContent == caret - contentStart
      isAtEnd == offsetInContent >= Len(trimmedContent)
  IN  IF isAtEnd
        THEN <<currentLineContent, indent \o marker \o AMP_NBSP>>
        ELSE <<indent \o marker \o slice(trimmedContent, 0, offsetInContent),
               indent \o marker \o sliceFrom(trimmedContent, offsetInContent)>>

\* Enter in a list block: ok is FALSE when the handler returns early.
listEnter(blockMarkdown, currentLine, caret) ==
  LET lines == splitLines(blockMarkdown)
      i == findLine(lines, currentLine)
  IN  IF i = 0 \/ ~isListLine(lines[i])
        THEN [ok |-> FALSE, markdown |-> blockMarkdown, index |-> 0,
              markerLength |-> 0]
        ELSE [ok |-> TRUE,
              markdown |-> trimEnd(joinLines(
                 SubSeq(lines, 1, i - 1) \o splitListLine(lines[i], caret)
                   \o SubSeq(lines, i + 1, Len(lines))) \o <<NL>>),
              index |-> i - 1,
              markerLength |->
                markerLen(sliceFrom(lines[i], leadWs(lines[i])))]

(***************************************************************************)
(* handleKeyDown.                                                          *)
(***************************************************************************)
Keys == {"Enter", "Backspace", "Delete", "a"}

\* selection.getRangeAt(0): the range starts at the anchor.
rangeStart(s, lines) == s

\* No block contains the anchor: the handler returns at once.
KeyNoBlock(key, shift) ==
  /\ sel.kind = "none" \/ ~hasElement(allLines, sel.block)
  /\ last' = Event("key-noblock", NoBlock, 0, 0, FALSE)
  /\ UNCHANGED <<doc, allLines, editingBlockIds, sel, pending, nextId>>

\* Enter in a list block.
KeyListEnter ==
  LET id == sel.block
      blockMarkdown == htmlToMarkdown(doc, id)
      start == rangeStart(sel, allLines)
      hasLine == /\ start.kind = "text"
                 /\ start.block \in EditSet
                 /\ start.line \in 1..Len(sourceLines(docText(doc, start.block)))
      r == listEnter(blockMarkdown,
                     sourceLines(docText(doc, start.block))[start.line],
                     start.off)
  IN  IF hasLine /\ r.ok
        THEN /\ Len(r.markdown) <= MaxListLen
             /\ Len(pending) < MaxPending
             /\ doc' = setEntry(doc, id, r.markdown)
             /\ pending' = Append(pending,
                   Deferred("raf", "list", id, r.index, r.markerLength))
             /\ sel' = rerenderSel(sel, doc', allLines, editingBlockIds)
             /\ last' = Event("list-enter", id, start.off, r.index, TRUE)
             /\ UNCHANGED <<allLines, editingBlockIds, nextId>>
        ELSE /\ last' = Event("list-enter-abort", id, start.off, 0, TRUE)
             /\ UNCHANGED <<doc, allLines, editingBlockIds, sel, pending,
                            nextId>>

\* Enter outside a list block: generic structural split.
KeySplit ==
  LET id == sel.block
      r == handleBlockSplit(doc, allLines, id, htmlToMarkdown(doc, id),
                            caretPos(doc, sel), nextId)
  IN  /\ nextId + r.used - 1 <= MaxId
      /\ Len(pending) < MaxPending
      /\ doc' = r.doc
      /\ allLines' = r.lines
      /\ editingBlockIds' = <<r.focus>>
      /\ nextId' = nextId + r.used
      /\ pending' = Append(pending, Deferred("raf", "split", r.focus, 0, 0))
      /\ sel' = rerenderSel(sel, doc', allLines', editingBlockIds')
      /\ last' = Event("split", id, caretPos(doc, sel), r.nb, TRUE)

\* Shift+Enter: literal newline.
KeyShiftEnter ==
  /\ IF editingBlockIds # << >>
       THEN /\ editingBlockIds[1] \in DOMAIN doc
                 => Len(doc[editingBlockIds[1]]) < MaxLen
            /\ doc' = setEntry(doc, editingBlockIds[1],
                               docRaw(doc, editingBlockIds[1]) \o <<NL>>)
       ELSE UNCHANGED doc
  /\ sel' = rerenderSel(sel, doc', allLines, editingBlockIds)
  /\ last' = Event("shift-enter", sel.block, 0, 0, TRUE)
  /\ UNCHANGED <<allLines, editingBlockIds, pending, nextId>>

\* Backspace with the caret at the start of the block.
KeyBackspaceAtStart ==
  LET id == sel.block
      idx == lineIndexOf(allLines, id)
      r == backwardMerge(doc, allLines, idx)
  IN  IF idx > 0
        THEN /\ Len(mergedText(docText(doc, allLines[idx]), docText(doc, id)))
                  <= MaxLen
             /\ Len(pending) < MaxPending
             /\ doc' = r.doc
             /\ allLines' = r.lines
             /\ editingBlockIds' = <<r.focus>>
             /\ pending' = Append(pending,
                   Deferred("raf", "merge", r.focus, r.join, 0))
             /\ sel' = rerenderSel(sel, doc', allLines', editingBlockIds')
             /\ last' = Event("merge", id, r.join, idx, TRUE)
             /\ UNCHANGED nextId
        ELSE /\ last' = Event("backspace-first", id, 0, idx, FALSE)
             /\ UNCHANGED <<doc, allLines, editingBlockIds, sel, pending,
                            nextId>>

\* Backspace or Delete in a block whose content is empty.
KeyDeleteEmpty ==
  LET id == sel.block
      idx == lineIndexOf(allLines, id)
      r == deleteBlock(doc, allLines, id, idx)
  IN  /\ Len(pending) < MaxPending
      /\ doc' = r.doc
      /\ allLines' = r.lines
      /\ pending' = Append(pending,
            Deferred("timer", "delete", r.focus, IF r.atEnd THEN 1 ELSE 0,
                     r.lines))
      /\ sel' = rerenderSel(sel, doc', allLines', editingBlockIds)
      /\ last' = Event("delete", id, 0, idx, TRUE)
      /\ UNCHANGED <<editingBlockIds, nextId>>

KeyOther(key) ==
  /\ last' = Event("key-other", sel.block, 0, 0, FALSE)
  /\ UNCHANGED <<doc, allLines, editingBlockIds, sel, pending, nextId>>

handleKeyDown(key, shift) ==
  /\ Tick
  /\ IF sel.kind = "none" \/ ~hasElement(allLines, sel.block)
       THEN KeyNoBlock(key, shift)
     ELSE IF key = "Enter" /\ ~shift
       THEN IF isListBlock(htmlToMarkdown(doc, sel.block))
              THEN KeyListEnter
              ELSE KeySplit
     ELSE IF key = "Enter" /\ shift
       THEN KeyShiftEnter
     ELSE IF key = "Backspace" /\ isCaretAtStartOfBlock(sel)
       THEN KeyBackspaceAtStart
     ELSE IF key \in {"Backspace", "Delete"}
             /\ isEmptyContent(textContent(doc, sel.block))
       THEN KeyDeleteEmpty
     ELSE KeyOther(key)
  /\ UNCHANGED <<lastClick, typed>>

(***************************************************************************)
(* Deferred callbacks.                                                     *)
(***************************************************************************)
\* The walk over the text fragments that looks for the fragment holding the
\* linear offset remaining; line is 0 when no fragment accommodates it.
RECURSIVE walk(_, _, _)
walk(frs, i, remaining) ==
  IF i > Len(frs) THEN [line |-> 0, off |-> 0]
  ELSE IF remaining <= Len(frs[i]) THEN [line |-> i, off |-> remaining]
  ELSE walk(frs, i + 1, remaining - Len(frs[i]))

\* Caret restoration after a backward merge.
restoreAfterMerge(d, lines, prevId, remaining) ==
  LET frs == fragments(d, prevId)
      w == walk(frs, 1, remaining)
  IN  IF w.line > 0 THEN TextSel(prevId, w.line, w.off)
      ELSE ElemSel("block", prevId, 2 * Len(frs) - 1)

\* Caret restoration after Enter in a list block.
restoreAfterListEnter(d, id, index, markerLength, s) ==
  LET frs == fragments(d, id)
  IN  IF index + 2 > Len(frs) THEN s
      ELSE TextSel(id, index + 2,
                   IF Len(frs[index + 2]) >= markerLength + 1
                     THEN markerLength + 1
                     ELSE Len(frs[index + 2]))

\* Caret restoration after a generic split: offset 0 of the first text
\* fragment of the block, or of the block element when it has none (an empty
\* block in rendered view).
restoreAfterSplit(d, id, editing) ==
  IF id \notin Range(editing) /\ docText(d, id) = << >>
    THEN ElemSel("block", id, 0)
    ELSE TextSel(id, 1, 0)

\* Caret placement of the callback that follows an empty-block deletion,
\* on the element as it is rendered when the callback runs.
restoreAfterDelete(d, focusId, atEnd, editing) ==
  IF focusId \notin Range(editing) /\ docText(d, focusId) = << >>
    THEN TextSel(focusId, 1, IF atEnd THEN 1 ELSE 0)
    ELSE ElemSel("span", focusId, 0)

\* All text positions of the rendered blocks.
TextPositions == UNION {positionsIn(doc, b) : b \in Range(allLines)}

\* The callback may run when no callback of its kind was scheduled before it.
runnable(i) ==
  /\ i \in 1..Len(pending)
  /\ \A j \in 1..(i - 1) : pending[j].kind # pending[i].kind

removeAt(q, i) == SubSeq(q, 1, i - 1) \o SubSeq(q, i + 1, Len(q))

RunFocus(cb) ==
  /\ IF lastClick /\ hasElement(allLines, cb.id)
       THEN \/ UNCHANGED sel
            \/ \E s \in TextPositions : sel' = s
       ELSE UNCHANGED sel
  /\ UNCHANGED editingBlockIds

RunList(cb) ==
  /\ sel' = IF hasElement(allLines, cb.id) /\ cb.id \in EditSet
              THEN restoreAfterListEnter(doc, cb.id, cb.a, cb.b, sel)
              ELSE sel
  /\ UNCHANGED editingBlockIds

RunMerge(cb) ==
  /\ sel' = IF hasElement(allLines, cb.id)
              THEN restoreAfterMerge(doc, allLines, cb.id, cb.a)
              ELSE sel
  /\ UNCHANGED editingBlockIds

\* The split's callback also sets the edit focus, as the deletion's does.
RunSplitSetsFocus(cb) ==
  /\ sel' = IF hasElement(allLines, cb.id)
              THEN restoreAfterSplit(doc, cb.id, editingBlockIds)
              ELSE sel
  /\ editingBlockIds' = <<cb.id>>

RunSplit(cb) ==
  /\ sel' = IF hasElement(allLines, cb.id)
              THEN restoreAfterSplit(doc, cb.id, editingBlockIds)
              ELSE sel
  /\ UNCHANGED editingBlockIds

RunDelete(cb) ==
  IF cb.id # NoBlock
    THEN /\ editingBlockIds' = <<cb.id>>
         /\ sel' = rerenderSel(
               IF hasElement(allLines, cb.id)
                 THEN restoreAfterDelete(doc, cb.id, cb.a = 1, editingBlockIds)
                 ELSE sel,
               doc, allLines, editingBlockIds')
    ELSE UNCHANGED <<editingBlockIds, sel>>

\* The deletion's callback also stores the ordering it captured.
RunDeferredWritesBack(i) ==
  /\ Tick
  /\ runnable(i)
  /\ LET cb == pending[i]
     IN  /\ CASE cb.cb = "focus" -> RunFocus(cb)
              [] cb.cb = "list" -> RunList(cb)
              [] cb.cb = "merge" -> RunMerge(cb)
              [] cb.cb = "split" -> RunSplit(cb)
              [] cb.cb = "delete" -> RunDelete(cb)
         /\ allLines' = IF cb.cb = "delete" THEN cb.b ELSE allLines
         /\ last' = Event("deferred-" \o cb.cb, cb.id, cb.a,
                          IF cb.cb = "delete" THEN 0 ELSE cb.b, FALSE)
  /\ pending' = removeAt(pending, i)
  /\ UNCHANGED <<doc, lastClick, nextId, typed>>

\* One deferred callback runs.  For the deletion's callback b is the
\* ordering newAllLines its closure captured.
RunDeferred(i) ==
  /\ Tick
  /\ runnable(i)
  /\ LET cb == pending[i]
     IN  /\ CASE cb.cb = "focus" -> RunFocus(cb)
              [] cb.cb = "list" -> RunList(cb)
              [] cb.cb = "merge" -> RunMerge(cb)
              [] cb.cb = "split" -> RunSplit(cb)
              [] cb.cb = "delete" -> RunDelete(cb)
         /\ last' = Event("deferred-" \o cb.cb, cb.id, cb.a,
                          IF cb.cb = "delete" THEN 0 ELSE cb.b, FALSE)
  /\ pending' = removeAt(pending, i)
  /\ UNCHANGED <<doc, allLines, lastClick, nextId, typed>>

(***************************************************************************)
(* Toolbar commands.  No rendered element carries a data-block-id          *)
(* attribute, so the lookup of the owning block finds nothing.             *)
(***************************************************************************)
blockOfSelection(s) == NoBlock

applyInlineMarker(marker) ==
  /\ Tick
  /\ sel.range # {}
  /\ blockOfSelection(sel) = NoBlock
  /\ last' = Event("marker", NoBlock, Len(marker), 0, FALSE)
  /\ UNCHANGED <<doc, allLines, editingBlockIds, sel, pending, lastClick,
                 nextId, typed>>

handleBold == applyInlineMarker(<<"*", "*">>)
handleItalic == applyInlineMarker(<<"*">>)

(***************************************************************************)
(* Specification.                                                          *)
(***************************************************************************)
Next ==
  \/ \E b \in Ids : MoveCaret(b)
  \/ \E i \in 1..MaxId, j \in 1..MaxId : SelectRange(i, j)
  \/ MoveCaretOutside
  \/ ClearSelection
  \/ handleMouseDown
  \/ handleFocusOrSelect
  \/ \E b \in Ids : handleBlur(b)
  \/ handleSelectionChange
  \/ \E b \in Ids, c \in TypeChars : onInput(b, c)
  \/ \E key \in Keys, shift \in BOOLEAN : handleKeyDown(key, shift)
  \/ \E i \in 1..MaxPending : RunDeferred(i)
  \/ handleBold
  \/ handleItalic

Spec == Init /\ [][Next]_vars

\* Every deferred callback eventually runs.
FairSpec == Spec /\ WF_vars(\E i \in 1..MaxPending : RunDeferred(i))

(***************************************************************************)
(* Type invariant.                                                         *)
(***************************************************************************)
TypeOK ==
  /\ DOMAIN doc \subseteq Ids
  /\ Range(allLines) \subseteq Ids
  /\ Len(pending) <= MaxPending
  /\ nextId \in 1..(MaxId + 1)
  /\ typed \in 0..MaxTyped
  /\ steps \in 0..MaxSteps

(***************************************************************************)
(* Properties of the Document and of the edit-focus set.                   *)
(***************************************************************************)
NoDuplicates(lines) ==
  \A i \in 1..Len(lines), j \in 1..Len(lines) : lines[i] = lines[j] => i = j

\* The ordering and the mapping of the Document (d, lines) agree.
Consistent(d, lines) == NoDuplicates(lines) /\ Range(lines) = DOMAIN d

\* C1: in every reachable state the ordering sequence has no duplicate id
\* and its ids are exactly the keys of the id-to-text mapping.
C1_OrderingMatchesMapping == Consistent(doc, allLines)

\* C2: in every reachable state every id of the edit-focus set is an id of
\* the Document.
C2_FocusWithinDocument == EditSet \subseteq DOMAIN doc

\* C3: a generic split, a backward merge or an empty-block deletion applied
\* to a Document whose ordering and mapping agree changes both the mapping
\* and the ordering in that one transition and yields a Document whose
\* ordering and mapping agree again.
C3_StructuralLockStep ==
  [][(last'.op \in {"split", "merge", "delete"} /\ Consistent(doc, allLines))
       => /\ Consistent(doc', allLines')
          /\ DOMAIN doc' # DOMAIN doc
          /\ allLines' # allLines]_vars

\* An empty-block deletion has just been applied and the Document agrees.
C3_Witness ==
  /\ last.op = "delete"
  /\ Len(allLines) >= 2
  /\ Consistent(doc, allLines)

(***************************************************************************)
(* Split and merge as operations: a block with the text input.text is      *)
(* split at offset input.k, then the resulting blocks are merged back      *)
(* into the first one, one backward merge at a time.                       *)
(***************************************************************************)
TextChars == {"a", SP, NL, "#", "-"}

Texts == UNION {[1..n -> TextChars] : n \in 0..MaxTextLen}

SplitMergeInit ==
  /\ \E t \in Texts : \E k \in 0..Len(t) : input = [text |-> t, k |-> k]
  /\ doc = [x \in {1} |-> input.text]
  /\ allLines = <<1>>
  /\ nextId = 2
  /\ editingBlockIds = <<1>>
  /\ sel = NoSel
  /\ pending = << >>
  /\ lastClick = FALSE
  /\ typed = 0
  /\ steps = 0
  /\ view = NoView
  /\ last = Event("init", NoBlock, 0, 0, FALSE)

SplitAt ==
  /\ Tick
  /\ last.op = "init"
  /\ LET r == handleBlockSplit(doc, allLines, allLines[1], input.text,
                               input.k, nextId)
     IN  /\ doc' = r.doc
         /\ allLines' = r.lines
         /\ editingBlockIds' = <<r.focus>>
         /\ nextId' = nextId + r.used
         /\ last' = Event("split", allLines[1], input.k, r.nb, TRUE)
  /\ UNCHANGED <<sel, pending, lastClick, typed>>

MergeBack ==
  /\ Tick
  /\ last.op \in {"split", "merge"}
  /\ Len(allLines) > 1
  /\ LET r == backwardMerge(doc, allLines, 1)
     IN  /\ doc' = r.doc
         /\ allLines' = r.lines
         /\ editingBlockIds' = <<r.focus>>
         /\ last' = Event("merge", allLines[2], r.join, 1, TRUE)
  /\ UNCHANGED <<sel, pending, lastClick, typed, nextId>>

SplitMergeNext == SplitAt \/ MergeBack

SplitMergeSpec == SplitMergeInit /\ [][SplitMergeNext]_vars

\* The split blocks have all been merged back into one.
MergedBack == last.op = "merge" /\ Len(allLines) = 1

CleanSplitPoint(t, k) ==
  /\ \A i \in 1..Len(t) : t[i] # NL
  /\ trim(t) = t
  /\ k > 0 => t[k] \notin WhiteSpace
  /\ k < Len(t) => t[k + 1] \notin WhiteSpace

C5_SplitIdsAndFrame ==
  [][last'.op = "split" =>
       LET b == last'.id
           idx == lineIndexOf(allLines, b)
           n == Len(allLines') - Len(allLines) + 1
           newIds == SubSeq(allLines', idx + 1, idx + n)
       IN  /\ idx >= 0
           /\ n >= 2
           /\ newIds[1] = b
           /\ \A i \in 2..n : newIds[i] \notin (DOMAIN doc \cup Range(allLines))
           /\ \A i \in 1..n, j \in 1..n : newIds[i] = newIds[j] => i = j
           /\ SubSeq(allLines', 1, idx) = SubSeq(allLines, 1, idx)
           /\ SubSeq(allLines', idx + n + 1, Len(allLines'))
                = SubSeq(allLines, idx + 2, Len(allLines))
           /\ DOMAIN doc' = DOMAIN doc \cup Range(newIds)
           /\ \A x \in DOMAIN doc \ {b} : doc'[x] = doc[x]]_vars

\* A block that is neither first nor last has just been split.
C5_Witness ==
  /\ last.op = "split"
  /\ lineIndexOf(allLines, last.id) > 0
  /\ lineIndexOf(allLines, last.id) + 2 < Len(allLines)

\* C6: a generic split at any offset of any text yields at least one
\* 'before' block and at least one 'after' block, so the Document grows by
\* at least one block; a half that segments to no block is exactly one
\* block with empty text.
C6_SplitAddsBlock ==
  last.op = "split" =>
    LET nb == last.n
        na == Len(allLines) - nb
        before == slice(input.text, 0, input.k)
        after == sliceFrom(input.text, input.k)
    IN  /\ nb >= 1
        /\ na >= 1
        /\ Len(allLines) >= 2
        /\ splitIntoBlocks(before) = << >>
             => nb = 1 /\ doc[allLines[1]] = << >>
        /\ splitIntoBlocks(after) = << >>
             => na = 1 /\ doc[allLines[nb + 1]] = << >>

\* A non-empty text split at its end: the 'after' half is one empty block.
C6_Witness ==
  /\ last.op = "split"
  /\ input.text # << >>
  /\ input.k = Len(input.text)
  /\ splitIntoBlocks(input.text) # << >>
  /\ Len(allLines) = last.n + 1
  /\ doc[allLines[last.n + 1]] = << >>

\* C7: after a generic split the edit-focus set is the singleton of the
\* first 'after' block, and when the cursor restoration that this split
\* deferred runs with no other event in between, it puts the cursor at
\* offset 0 of that block.
C7_SplitFocusAndCaret ==
  [][/\ last'.op = "split"
          => editingBlockIds'
               = <<allLines'[lineIndexOf(allLines, last'.id) + last'.n + 1]>>
     /\ (/\ last.op = "split"
         /\ last'.op = "deferred-split"
         /\ last'.id = editingBlockIds[1])
          => sel' = TextSel(editingBlockIds[1], 1, 0)]_vars

\* The cursor restoration has run right after a split.
C7_Witness ==
  /\ last.op = "deferred-split"
  /\ editingBlockIds = <<last.id>>
  /\ sel = TextSel(last.id, 1, 0)
  /\ lineIndexOf(allLines, last.id) > 0

\* C8: Backspace at the very start of a block that is not first replaces
\* the previous block's text by previousText + currentText when at least one
\* of the two is not a list block and by previousText + newline +
\* currentText when both are; the current block's id leaves the mapping and
\* the ordering, the edit-focus set becomes the singleton of the previous
\* block's id, and no other block changes.
C8_BackwardMerge ==
  [][last'.op = "merge" =>
       LET id == last'.id
           idx == lineIndexOf(allLines, id)
           prevId == allLines[idx]
           prevText == docText(doc, prevId)
           currText == docText(doc, id)
       IN  /\ idx > 0
           /\ isCaretAtStartOfBlock(sel) /\ sel.block = id
           /\ doc'[prevId]
                = IF isListBlock(prevText) /\ isListBlock(currText)
                    THEN prevText \o <<NL>> \o currText
                    ELSE prevText \o currText
           /\ id \notin DOMAIN doc'
           /\ allLines' = SelectSeq(allLines, LAMBDA x : x # id)
           /\ editingBlockIds' = <<prevId>>
           /\ DOMAIN doc' = DOMAIN doc \ {id}
           /\ \A x \in DOMAIN doc \ {id, prevId} : doc'[x] = doc[x]]_vars

\* Two list blocks have just been joined with a line break.
C8_Witness ==
  /\ last.op = "merge"
  /\ editingBlockIds = <<allLines[last.n]>>
  /\ isListBlock(doc[allLines[last.n]])
  /\ \E i \in 1..Len(doc[allLines[last.n]]) :
       i > last.k /\ doc[allLines[last.n]][i] = NL

\* Offset of a text position in the source text of its block: the lines
\* before it with their line breaks, then the offset in its line.
linearOffset(d, s) ==
  LET lines == sourceLines(docText(d, s.block))
  IN  Len(concat(SubSeq(lines, 1, s.line - 1))) + (s.line - 1) + s.off

\* C9: the deferred cursor restoration that follows a backward merge puts
\* the cursor in the previous block at the linear offset of the merged text
\* equal to the previous block's pre-merge text length, also when that text
\* has several lines.
C9_CaretAtJoinPoint ==
  [][(last.op = "merge" /\ last'.op = "deferred-merge")
       => /\ sel'.kind = "text"
          /\ sel'.block = allLines[last.n]
          /\ linearOffset(doc, sel') = last.k]_vars

\* C10: Backspace or Delete in a focused block whose rendered content is
\* empty or the zero-width placeholder alone, wherever the block is in the
\* ordering and wherever the cursor is in it, removes the block's id from
\* the mapping and the ordering; every other block keeps its text and its
\* relative order.
C10_EmptyBlockRemoved ==
  [][(/\ last'.op \in {"delete", "merge", "backspace-first"}
      /\ sel.block \in EditSet
      /\ Consistent(doc, allLines)
      /\ isEmptyContent(textContent(doc, sel.block)))
       => /\ sel.block \notin DOMAIN doc'
          /\ allLines' = SelectSeq(allLines, LAMBDA x : x # sel.block)
          /\ \A x \in DOMAIN doc \ {sel.block} :
               x \in DOMAIN doc' /\ doc'[x] = doc[x]]_vars

\* The cursor s is at the very start of its block.
AtBlockStart(s) ==
  \/ s.kind \in {"block", "span"} /\ s.off = 0
  \/ s.kind = "text" /\ s.line = 1 /\ s.off = 0

\* The cursor s is at the very end of its block as rendered from d.
AtBlockEnd(d, s) ==
  LET frs == fragments(d, s.block)
  IN  \/ s.kind = "text" /\ s.line = Len(frs) /\ s.off = Len(frs[s.line])
      \/ s.kind = "block" /\ s.off = 2 * Len(frs) - 1
      \/ s.kind \in {"block", "span"} /\ docText(d, s.block) = << >>

\* C11: removing an empty block by Backspace or Delete moves the edit focus
\* to the next neighbour, cursor at its start, when the block has both
\* neighbours, and to the previous neighbour, cursor at its end, when the
\* block is last.  The focus move is the callback the removal defers; it is
\* followed here when it runs as the next event.
C11_DeletionFocus ==
  [][LET b == sel.block
         idx == lineIndexOf(allLines, b)
         cb == pending'[Len(pending')]
     IN  /\ (/\ last'.op \in {"delete", "merge"}
             /\ isEmptyContent(textContent(doc, b))
             /\ idx > 0 /\ idx < Len(allLines) - 1)
              => /\ pending' # << >>
                 /\ cb.cb = "delete"
                 /\ cb.id = allLines[idx + 2]
                 /\ cb.a = 0
         /\ (/\ last'.op = "delete"
             /\ idx > 0 /\ idx = Len(allLines) - 1)
              => /\ pending' # << >>
                 /\ cb.cb = "delete"
                 /\ cb.id = allLines[idx]
                 /\ cb.a = 1
         /\ (/\ last.op = "delete"
             /\ last'.op = "deferred-delete"
             /\ hasElement(allLines, last'.id))
              => /\ editingBlockIds' = <<last'.id>>
                 /\ sel'.block = last'.id
                 /\ IF last'.k = 1 THEN AtBlockEnd(doc, sel')
                    ELSE AtBlockStart(sel')]_vars

(***************************************************************************)
(* The Block Segmenter as an operation: the text input.text is loaded,     *)
(* then the texts of the resulting blocks, joined with blank lines, are    *)
(* loaded again.                                                           *)
(***************************************************************************)
SegChars == {"a", SP, NL, "#"}

SegTexts == UNION {[1..n -> SegChars] : n \in 0..MaxSegLen}

\* The block texts of the Document (d, lines), in order.
blockTexts(d, lines) == [i \in 1..Len(lines) |-> d[lines[i]]]

\* The block texts joined with blank lines.
RECURSIVE joinBlocks(_)
joinBlocks(bs) ==
  IF bs = << >> THEN << >>
  ELSE IF Len(bs) = 1 THEN bs[1]
  ELSE bs[1] \o <<NL, NL>> \o joinBlocks(Tail(bs))

SegmentInit ==
  /\ \E t \in SegTexts : input = [text |-> t, k |-> 0]
  /\ doc = << >>
  /\ allLines = << >>
  /\ nextId = 1
  /\ editingBlockIds = << >>
  /\ sel = NoSel
  /\ pending = << >>
  /\ lastClick = FALSE
  /\ typed = 0
  /\ steps = 0
  /\ view = NoView
  /\ last = Event("init", NoBlock, 0, 0, FALSE)

LoadInput ==
  /\ Tick
  /\ last.op = "init"
  /\ doc' = loadDocument(input.text).doc
  /\ allLines' = loadDocument(input.text).lines
  /\ nextId' = loadDocument(input.text).fresh
  /\ last' = Event("load", NoBlock, 0, Len(allLines'), FALSE)
  /\ UNCHANGED <<editingBlockIds, sel, pending, lastClick, typed>>

LoadAgain ==
  /\ Tick
  /\ last.op = "load"
  /\ LET r == loadDocument(joinBlocks(blockTexts(doc, allLines)))
     IN  /\ doc' = r.doc
         /\ allLines' = r.lines
         /\ nextId' = r.fresh
         /\ last' = Event("reload", NoBlock, 0, Len(r.lines), FALSE)
  /\ UNCHANGED <<editingBlockIds, sel, pending, lastClick, typed>>

SegmentNext == LoadInput \/ LoadAgain

SegmentSpec == SegmentInit /\ [][SegmentNext]_vars

\* C12: segmenting a text, joining the block texts with blank lines and
\* segmenting again gives the same sequence of block texts as segmenting
\* the text once.
C12_SegmentIdempotent ==
  [][last'.op = "reload"
       => blockTexts(doc', allLines') = blockTexts(doc, allLines)]_vars

\* C13: every line of the input that matches the heading pattern is emitted
\* as a block made of that line alone (trimmed, as every block is), also
\* without blank lines around it; the lines before it and the lines after
\* it are segmented apart from it and from each other.
C13_HeadingIsolated ==
  last.op = "load" =>
    LET lines == splitLines(normalizeEol(input.text))
    IN  \A i \in 1..Len(lines) :
          isHeadingLine(lines[i]) =>
            blockTexts(doc, allLines)
              = splitIntoBlocks(joinLines(SubSeq(lines, 1, i - 1)))
                  \o <<trim(lines[i])>>
                  \o splitIntoBlocks(joinLines(SubSeq(lines, i + 1,
                                                      Len(lines))))

\* A heading directly between two text lines has been segmented.
C13_Witness ==
  /\ last.op = "load"
  /\ input.text = <<"a", NL, "#", SP, NL, "a">>
  /\ blockTexts(doc, allLines) = << <<"a">>, <<"#">>, <<"a">> >>

(***************************************************************************)
(* Enter in a list block as an operation: one block in source view holds   *)
(* a list text, the cursor is somewhere in it, Enter is pressed once and   *)
(* the deferred cursor restoration runs.                                   *)
(***************************************************************************)
ListIndents == {<< >>, <<SP>>}

ListMarkers == {<<"-", SP>>, <<"*", SP>>, <<"+", SP>>, <<"1", ".", SP>>}

ListContents == UNION {[1..n -> {"a", SP, "-"}] : n \in 0..MaxContentLen}

ListLines ==
  {i \o m \o c : i \in ListIndents, m \in ListMarkers, c \in ListContents}

\* One list line alone, or next to a list line or a line of plain text.
ListTexts ==
  ListLines
    \cup {l \o <<NL, "-", SP, "a">> : l \in ListLines}
    \cup {l \o <<NL, "a">> : l \in ListLines}
    \cup {<<"-", SP, "a", NL>> \o l : l \in ListLines}
    \cup { <<"-", SP, "a", "b", "c", "d", "e", "f">>,
           <<"-", SP, "a", NL, "-", SP, "b">>,
           <<"-", SP, "[", SP, "]", SP, "a", "b">>,
           <<SP, "-", SP, "[", "x", "]", SP, "a", "b">> }

ListInit ==
  /\ \E t \in ListTexts : input = [text |-> t, k |-> 0]
  /\ doc = [x \in {1} |-> input.text]
  /\ allLines = <<1>>
  /\ nextId = 2
  /\ editingBlockIds = <<1>>
  /\ \E s \in positionsIn(doc, 1) : sel = s
  /\ pending = << >>
  /\ lastClick = FALSE
  /\ typed = 0
  /\ steps = 0
  /\ view = NoView
  /\ last = Event("init", NoBlock, 0, 0, FALSE)

ListNext ==
  \/ last.op = "init" /\ handleKeyDown("Enter", FALSE)
  \/ \E i \in 1..MaxPending : RunDeferred(i)

ListSpec == ListInit /\ [][ListNext]_vars

\* The parts of a list line: indent, marker and content.
lineIndent(line) == SubSeq(line, 1, leadWs(line))
lineMarker(line) ==
  SubSeq(line, leadWs(line) + 1,
         leadWs(line) + markerLen(sliceFrom(line, leadWs(line))))
lineContent(line) ==
  sliceFrom(line, leadWs(line) + markerLen(sliceFrom(line, leadWs(line))))

\* The source line the cursor s is on, and the lines around it.
cursorLine(d, s) == splitLines(docText(d, s.block))[s.line]
linesBefore(d, s) == SubSeq(splitLines(docText(d, s.block)), 1, s.line - 1)
linesAfter(d, s) ==
  SubSeq(splitLines(docText(d, s.block)), s.line + 1,
         Len(splitLines(docText(d, s.block))))

\* The cursor s is on a list line of a list block shown in source view.
OnListLine(d, s) ==
  /\ s.kind = "text"
  /\ s.block \in EditSet
  /\ isListBlock(docText(d, s.block))
  /\ s.line <= Len(splitLines(docText(d, s.block)))
  /\ isListLine(cursorLine(d, s))

\* Offset in the line of the end of its content, trailing whitespace apart.
contentEnd(line) ==
  IF trim(lineContent(line)) = << >>
    THEN Len(lineIndent(line)) + Len(lineMarker(line))
    ELSE Len(trimEnd(line))

\* C14: Enter in a list block with the cursor at or past the end of the
\* trimmed content of a list line leaves that line unchanged and inserts
\* right after it one new line made of the same indent and marker with
\* empty content ("- a\n- b" at the end of "- b" gives the lines "- a",
\* "- b", "- ").
C14_ListContinuation ==
  [][(/\ last'.op \in {"list-enter", "list-enter-abort"}
      /\ OnListLine(doc, sel)
      /\ sel.off >= contentEnd(cursorLine(doc, sel)))
       => splitLines(docText(doc', sel.block))
            = linesBefore(doc, sel)
                \o <<cursorLine(doc, sel),
                     lineIndent(cursorLine(doc, sel))
                       \o lineMarker(cursorLine(doc, sel))>>
                \o linesAfter(doc, sel)]_vars

\* C15: Enter in a list block with the cursor strictly inside the content
\* of a list line, at content offset j, replaces the line by the two lines
\* indent + marker + content[0..j) and indent + marker + content[j..), for
\* every indent, marker and content.  Stated for the contents that neither
\* begin nor end with whitespace, where the content and the trimmed content
\* the handler works on are the same text.
C15_ListItemSplit ==
  [][LET line == cursorLine(doc, sel)
         start == Len(lineIndent(line)) + Len(lineMarker(line))
         j == sel.off - start
     IN  (/\ last'.op \in {"list-enter", "list-enter-abort"}
          /\ OnListLine(doc, sel)
          /\ lineContent(line) = trim(lineContent(line))
          /\ 0 < j /\ j < Len(lineContent(line)))
           => splitLines(docText(doc', sel.block))
                = linesBefore(doc, sel)
                    \o <<lineIndent(line) \o lineMarker(line)
                           \o SubSeq(lineContent(line), 1, j),
                         lineIndent(line) \o lineMarker(line)
                           \o sliceFrom(lineContent(line), j)>>
                    \o linesAfter(doc, sel)]_vars

\* C16: Enter inside a list block never creates or removes a block: the
\* ordering and the key set of the mapping are unchanged, the text of every
\* other block is unchanged, and only the block under the cursor may change.
C16_ListEnterFrame ==
  [][last'.op \in {"list-enter", "list-enter-abort"}
       => /\ allLines' = allLines
          /\ DOMAIN doc' = DOMAIN doc
          /\ last'.id = sel.block
          /\ \A x \in (DOMAIN doc) \ {sel.block} : doc'[x] = doc[x]]_vars

\* A list block among other blocks has received a new item.
C16_Witness ==
  /\ last.op = "list-enter"
  /\ Len(allLines) >= 3
  /\ Len(splitLines(docText(doc, last.id))) = 2

\* C17: when Enter is pressed in a list block and the line under the cursor
\* cannot be located or is not a list item (the cursor is on a line of plain
\* text of a block that also holds a list line), the generic structural
\* split is performed for that Enter.
C17_ListFallback ==
  [][(/\ last'.op \in {"list-enter", "list-enter-abort"}
      /\ ~OnListLine(doc, sel))
       => LET r == handleBlockSplit(doc, allLines, sel.block,
                                    htmlToMarkdown(doc, sel.block),
                                    caretPos(doc, sel), nextId)
          IN  /\ doc' = r.doc
              /\ allLines' = r.lines
              /\ editingBlockIds' = <<r.focus>>]_vars

\* C18: Shift+Enter changes no structure: ordering and key set are
\* unchanged, the text of the block that holds the cursor becomes its
\* previous text followed by one newline, and every other block is
\* unchanged, whatever the edit-focus set is.
C18_ShiftEnter ==
  [][last'.op = "shift-enter"
       => /\ allLines' = allLines
          /\ DOMAIN doc' = DOMAIN doc
          /\ docText(doc', sel.block) = docText(doc, sel.block) \o <<NL>>
          /\ \A x \in (DOMAIN doc) \ {sel.block} : doc'[x] = doc[x]]_vars

\* The cursor anchor lies in no block: there is no selection, or the anchor
\* is outside every block element.
AnchorInNoBlock ==
  sel.kind \in {"none", "outside"} \/ ~hasElement(allLines, sel.block)

\* C19: a key, focus or selection event whose cursor anchor lies in no
\* block leaves the mapping, the ordering and the edit-focus set unchanged,
\* does not suppress the host's default behaviour and raises no error.
C19_OutsideNoEffect ==
  [][(/\ AnchorInNoBlock
      /\ last'.op \in {"key-noblock", "focusin", "selectionchange",
                       "selectionchange-error"})
       => /\ doc' = doc
          /\ allLines' = allLines
          /\ editingBlockIds' = editingBlockIds
          /\ ~last'.prevented
          /\ last'.op # "selectionchange-error"]_vars

\* C20: whenever a focus or selection event makes a block B the only member
\* of the edit-focus set, every other block A that was in the set has its
\* live content serialized into its entry first: by the handler itself or
\* by the pointer-down handler that ran just before it.
C20_SaveBeforeSwitch ==
  [][\A A \in EditSet :
       (/\ last'.op \in {"focusin", "selectionchange"}
        /\ Len(editingBlockIds') = 1
        /\ editingBlockIds'[1] # A
        /\ hasElement(allLines, A))
         => \/ last'.op = "focusin" /\ last'.n = A
            \/ last.op = "mousedown" /\ last.n = A]_vars

\* C21: on a selection change a non-collapsed selection sets the edit-focus
\* set to exactly the blocks whose rendered region intersects the range, a
\* collapsed selection inside a block sets it to that block alone, a
\* selection that touches no block leaves it unchanged, and the mapping and
\* the ordering are never modified.
C21_SelectionChange ==
  [][last'.op \in {"selectionchange", "selectionchange-error"}
       => /\ doc' = doc
          /\ allLines' = allLines
          /\ IF sel.range \cap Range(allLines) # {}
               THEN /\ Range(editingBlockIds') = sel.range \cap Range(allLines)
                    /\ NoDuplicates(editingBlockIds')
             ELSE IF sel.range = {} /\ ~AnchorInNoBlock
               THEN editingBlockIds' = <<sel.block>>
             ELSE editingBlockIds' = editingBlockIds]_vars

\* A selection over two blocks has put both in the edit-focus set.
C21_Witness ==
  /\ last.op = "selectionchange"
  /\ Len(editingBlockIds) = 2
  /\ Len(allLines) = 3

\* blockContent.slice(0, s) + marker + selected text + marker +
\* blockContent.slice(e)
wrapSelection(t, s, e, marker) ==
  SubSeq(t, 1, s) \o marker \o SubSeq(t, s + 1, e) \o marker
    \o SubSeq(t, e + 1, Len(t))

\* C22: the inline-marker command (bold "**", italic "*") invoked with a
\* non-collapsed selection from offset s to offset e inside one block with
\* text t sets that block's text to t[0..s) + marker + t[s..e) + marker +
\* t[e..) and changes no other block and not the ordering.
C22_InlineMarker ==
  [][LET b == sel.block
         t == docText(doc, b)
         s == caretPos(doc, sel)
         marker == IF last'.k = 2 THEN <<"*", "*">> ELSE <<"*">>
     IN  (/\ last'.op = "marker"
          /\ sel.range = {b}
          /\ b \in DOMAIN doc
          /\ hasElement(allLines, b)
          /\ s < Len(t))
           => /\ allLines' = allLines
              /\ DOMAIN doc' = DOMAIN doc
              /\ \A x \in (DOMAIN doc) \ {b} : doc'[x] = doc[x]
              /\ \E e \in (s + 1)..Len(t) :
                   doc'[b] = wrapSelection(t, s, e, marker)]_vars

(***************************************************************************)
(* Rendering one block as an operation: a block text, in the edit-focus    *)
(* set or not, is rendered once, with every outcome of the renderer call.  *)
(***************************************************************************)
RenderChars == {"a", "/", SP, "\\"}

RenderTexts == UNION {[1..n -> RenderChars] : n \in 0..MaxRenderLen}

RenderInit ==
  /\ \E t \in RenderTexts : input = [text |-> t, k |-> 0]
  /\ doc = [x \in {1} |-> input.text]
  /\ allLines = <<1>>
  /\ nextId = 2
  /\ editingBlockIds \in {<< >>, <<1>>}
  /\ sel = NoSel
  /\ pending = << >>
  /\ lastClick = FALSE
  /\ typed = 0
  /\ steps = 0
  /\ view = NoView
  /\ last = Event("init", NoBlock, 0, 0, FALSE)

RenderBlock ==
  /\ last.op = "init"
  /\ \E outcome \in RendererOutcomes :
       view' = renderBlock(doc, 1, editingBlockIds, outcome)
  /\ last' = Event("render", 1, 0, 0, FALSE)
  /\ UNCHANGED <<doc, allLines, editingBlockIds, sel, pending, lastClick,
                 nextId, typed, steps, input>>

RenderNext == RenderBlock

RenderSpec == RenderInit /\ [][RenderNext]_vars

\* C23: when the renderer fails or returns something that is not a string
\* (a promise, an object, undefined), the rendered value of the block is the
\* block's raw source text and no error leaves the render.  Stated for the
\* blocks shown in rendered view that are not bookmarks.
C23_RendererFallback ==
  (/\ last.op = "render"
   /\ 1 \notin EditSet
   /\ ~startsWith(input.text, BOOKMARK_PREFIX)
   /\ view.outcome \in {"promise", "object", "undefined", "throws"})
    => ~view.error /\ view.html = input.text

\* C24: a block outside the edit-focus set whose raw text begins with "// "
\* is rendered as a bookmark marker holding the raw text without that
\* prefix and otherwise unaltered; a block in the edit-focus set is
\* rendered in source view whatever its prefix.
C24_Bookmark ==
  (last.op = "render" /\ startsWith(input.text, BOOKMARK_PREFIX))
    => IF 1 \in EditSet
         THEN view.mode = "source"
         ELSE /\ ~view.error
              /\ view.mode = "bookmark"
              /\ view.html = <<"<div class=m2-bookmark>">>
                               \o SubSeq(input.text, 4, Len(input.text))
                               \o <<"<hr />", "</div>">>

\* C25: on a key event the linear caret offset computed from the host anchor
\* equals the caret's offset in the block's text, one character counted for
\* every line break before the caret: for a caret at column c of line i it
\* is the sum over the lines j < i of length(line j) + 1, plus c.  Stated
\* for Enter in a block shown in source view with the anchor in a text
\* fragment.
C25_CaretOffset ==
  [][(/\ last'.op = "split"
      /\ sel.kind = "text"
      /\ sel.block \in EditSet)
       => last'.k = linearOffset(doc, sel)]_vars

\* C26: Enter in a list block rewrites the line the cursor is on: the lines
\* before it and the lines after it appear unchanged and in the same order
\* in the new text, with one or two lines between them, also when another
\* line of the block has the same text up to surrounding whitespace.
\* Stated for block texts that do not end with whitespace.
C26_ListEnterLine ==
  [][LET before == linesBefore(doc, sel)
         after == linesAfter(doc, sel)
         new == splitLines(docText(doc', sel.block))
     IN  (/\ last'.op \in {"list-enter", "list-enter-abort"}
          /\ OnListLine(doc, sel)
          /\ docText(doc, sel.block) = trimEnd(docText(doc, sel.block)))
           => /\ Len(new) - Len(before) - Len(after) \in {1, 2}
              /\ SubSeq(new, 1, Len(before)) = before
              /\ SubSeq(new, Len(new) - Len(after) + 1, Len(new)) = after]_vars

\* A task-list line: indent, then "- [ ] ", "- [x] " or "- [X] ".
isTaskLine(line) ==
  LET rest == sliceFrom(line, leadWs(line))
  IN  /\ Len(rest) >= 6
      /\ SubSeq(rest, 1, 3) = <<"-", SP, "[">>
      /\ rest[4] \in {SP, "x", "X"}
      /\ SubSeq(rest, 5, 6) = <<"]", SP>>

\* Indent and task marker of a task-list line.
taskPrefix(line) == SubSeq(line, 1, leadWs(line) + 6)

\* C27: Enter on a task-list line, with the cursor in or after its content,
\* treats the whole task prefix as the marker: the line is replaced by two
\* lines that both begin with indent + the same task marker (the item split
\* in two, or the item followed by a new empty item).
C27_TaskMarker ==
  [][LET line == cursorLine(doc, sel)
         new == splitLines(docText(doc', sel.block))
     IN  (/\ last'.op \in {"list-enter", "list-enter-abort"}
          /\ OnListLine(doc, sel)
          /\ isTaskLine(line)
          /\ sel.off >= Len(taskPrefix(line)))
           => /\ Len(new) = Len(splitLines(docText(doc, sel.block))) + 1
              /\ startsWith(new[sel.line], taskPrefix(line))
              /\ startsWith(new[sel.line + 1], taskPrefix(line))]_vars

\* C28: after Enter in a list block the deferred cursor restoration places
\* the cursor in the newly produced second line at the start of its
\* content, i.e. at line offset length(indent) + length(marker), for every
\* indent and marker and whether the new content is empty or not.
C28_ListCaretRestore ==
  [][(last.op = "list-enter" /\ last'.op = "deferred-list")
       => LET line == splitLines(docText(doc, last.id))[last.n + 2]
          IN  /\ sel'.kind = "text"
              /\ sel'.block = last.id
              /\ sel'.line = last.n + 2
              /\ sel'.off = Len(lineIndent(line)) + Len(lineMarker(line))]_vars

DeferredOps ==
  {"deferred-focus", "deferred-list", "deferred-split", "deferred-merge",
   "deferred-delete"}

\* C29: every deferred cursor-restoration callback looks its target block
\* up again by id when it runs; when no block with that id is rendered at
\* that moment the callback does nothing.
C29_DeferredLookup ==
  [][(last'.op \in DeferredOps /\ ~hasElement(allLines, last'.id))
       => /\ doc' = doc
          /\ allLines' = allLines
          /\ editingBlockIds' = editingBlockIds
          /\ sel' = sel]_vars

\* The block before block id in the ordering, NoBlock when there is none.
predecessor(lines, id) ==
  IF lineIndexOf(lines, id) > 0 THEN lines[lineIndexOf(lines, id)]
  ELSE NoBlock

C31_DeferredFrame ==
  [][last'.op \in DeferredOps
       => /\ doc' = doc
          /\ allLines' = allLines
          /\ editingBlockIds' # editingBlockIds
               => last'.op = "deferred-delete"]_vars

\* The deletion's callback has run and put its block in the edit focus
\* while the Document holds other blocks.
C31_Witness ==
  /\ last.op = "deferred-delete"
  /\ last.id # NoBlock
  /\ editingBlockIds = <<last.id>>
  /\ Len(allLines) > 1

\* The characters of a text that are not whitespace, in order.
nonWhitespace(s) == SelectSeq(s, LAMBDA ch : ch \notin WhiteSpace)

\* A text has a blank line when one of its lines is empty or whitespace.
hasBlankLine(s) ==
  \E i \in 1..Len(splitLines(s)) : trim(splitLines(s)[i]) = << >>

\* C32: the non-whitespace characters of the blocks the segmenter returns,
\* read block by block, are the non-whitespace characters of the input in
\* the same order; every block is non-empty, has no leading or trailing
\* whitespace and contains no blank line.
C32_SegmentPreserves ==
  last.op = "load" =>
    LET bs == blockTexts(doc, allLines)
    IN  /\ nonWhitespace(concat(bs)) = nonWhitespace(input.text)
        /\ \A i \in 1..Len(bs) :
             /\ bs[i] # << >>
             /\ trim(bs[i]) = bs[i]
             /\ ~hasBlankLine(bs[i])

\* A text with at least two whitespace characters has been segmented into
\* several blocks, one of them with more than one line.
C32_Witness ==
  /\ last.op = "load"
  /\ Len(allLines) >= 2
  /\ \E i \in 1..Len(allLines) : NL \in Range(doc[allLines[i]])
  /\ Len(nonWhitespace(input.text)) < Len(input.text) - 1

\* C33: a generic split of a block with text t at offset k loses and
\* duplicates nothing: the non-whitespace characters of the resulting
\* blocks, in ordering-sequence order, are those of t; those of the
\* 'before' blocks are the ones before offset k and those of the 'after'
\* blocks are the ones from offset k on.
C33_SplitPreserves ==
  last.op = "split" =>
    LET bs == blockTexts(doc, allLines)
        nb == last.n
    IN  /\ nonWhitespace(concat(bs)) = nonWhitespace(input.text)
        /\ nonWhitespace(concat(SubSeq(bs, 1, nb)))
             = nonWhitespace(SubSeq(input.text, 1, input.k))
        /\ nonWhitespace(concat(SubSeq(bs, nb + 1, Len(bs))))
             = nonWhitespace(SubSeq(input.text, input.k + 1,
                                    Len(input.text)))

\* A text with whitespace next to the offset and text on both sides of it
\* has been split into a 'before' block and an 'after' block.
C33_Witness ==
  /\ last.op = "split"
  /\ last.n = 1
  /\ Len(allLines) = 2
  /\ 0 < input.k /\ input.k < Len(input.text)
  /\ doc[allLines[1]] # << >> /\ doc[allLines[2]] # << >>
  /\ Len(concat(blockTexts(doc, allLines))) < Len(input.text)

\* C34: an input event in an edit-focused block whose text has n lines
\* stores a text that still has n lines, and every line other than the one
\* holding the caret is unchanged.
C34_InputKeepsLines ==
  [][last'.op = "input"
       => LET b == last'.id
              old == splitLines(docText(doc, b))
              new == splitLines(docText(doc', b))
              edited == IF sel.kind = "text" THEN sel.line ELSE 1
          IN  /\ Len(new) = Len(old)
              /\ \A i \in 1..Len(old) :
                   (i # edited /\ i <= Len(new)) => new[i] = old[i]]_vars

\* C35: no block text of the Document contains a rendering placeholder:
\* neither the zero-width marker of an empty line, nor a non-breaking
\* space, as a character or as the entity &nbsp;.
C35_NoPlaceholder ==
  \A id \in DOMAIN doc :
    /\ ZWSP \notin Range(doc[id])
    /\ NBSP \notin Range(doc[id])
    /\ indexOf(doc[id], AMP_NBSP) = -1

=============================================================================
